---- MODULE Spec2Model ----
(***************************************************************************)
(* Model of neo/io/kwikio.py: the KwikIO reader.                           *)
(*                                                                         *)
(* read_segment is modelled statement group by statement group (its        *)
(* position is pc, its loop counters are i and j); read_analogsignal,      *)
(* read_spiketrain and read_stimulus are operators computing what the      *)
(* method returns or raises, used both by read_segment and by the direct   *)
(* calls of the public API.                                                *)
(*                                                                         *)
(* Numbers: np.random yields k / RngMod for the generator state k          *)
(* (0 <= k < RngMod), so every float in [0, 1) is a numerator over         *)
(* RngMod.  Spike times are kept as numerators over RngMod, the segment    *)
(* duration as a pair <<numerator, denominator>>.  Unset Python attributes *)
(* (None, or never assigned) are the empty tuple <<>>.                     *)
(***************************************************************************)
EXTENDS Integers, Sequences, FiniteSets, TLC

\* ------------------------------------------------------------------ bounds
\* Largest size of either dimension of the raw array that is enumerated.
MaxDim == 2
\* Largest value of the 'shape' attribute that is enumerated.
MaxTotal == 2
\* Number of states of the random generator (values k / RngMod).
RngMod == 3

\* ------------------------------------------------------- program constants
num_spiketrain_by_channel == 3
num_spike_by_spiketrain == 40
sr == 10000
\* left_sweep = 1.5 s, kept in tenths of a second
left_sweep_tenths == 15
\* n of read_stimulus
n_epochs == 1000
\* epo.durations = np.ones(n) * 500 * pq.ms
epoch_duration_ms == 500
\* default arguments of read_spiketrain
default_segment_duration == 15
default_t_start == -1

\* Names bound at module level once the module has been imported
\* (HAVE_SCIPY decides whether `stats` is among them).
ModuleGlobals(haveScipy) ==
    {"np", "pq", "h5py", "op", "HAVE_SCIPY", "SCIPY_ERR", "BaseIO",
     "Segment", "SpikeTrain", "Unit", "EpochArray", "RecordingChannel",
     "RecordingChannelGroup", "AnalogSignal", "KwikIO"}
    \cup (IF haveScipy THEN {"stats"} ELSE {})

\* ------------------------------------------------------------ input sets
AttrNames == {"sample_rate", "start_time", "shape"}
SampleRates == {-1, 2}
StartTimes == {0, 1}
Totals == 0..MaxTotal
Dims == 0..MaxDim
Datasets == {0, 1}
ChannelIndexes == 0..MaxDim
\* <<segment_duration, t_start>> of the direct read_spiketrain calls
SpikeArgs == {<<15, -1>>, <<1, 0>>, <<0, 0>>}

\* Attribute sets: any subset of the three attributes, each with a value.
AttrSets ==
    UNION { { [a \in present |->
                 CASE a = "sample_rate" -> rate
                   [] a = "start_time"  -> start
                   [] OTHER             -> total]
              : rate \in SampleRates, start \in StartTimes, total \in Totals }
            : present \in SUBSET AttrNames }

\* A recording group: the 2-D 'data' array (its shape; the sample at
\* [r, c] of the fixture is r * (MaxDim + 2) + c) and the attribute set.
Recordings == [shape : Dims \X Dims, attrs : AttrSets]

\* The raw container: openable or not, and its recordings keyed by dataset.
KwdFiles ==
    { [openable |-> FALSE, recordings |-> <<>>],
      [openable |-> TRUE,  recordings |-> <<>>] }
    \cup { [openable |-> TRUE, recordings |-> (0 :> r)] : r \in Recordings }

\* The files on disk: the primary container (openable or not) and its
\* companion <basename>.raw.kwd.
FileSets ==
    { [kwik |-> TRUE, kwd |-> k] : k \in KwdFiles }
    \cup { [kwik |-> FALSE, kwd |-> k] :
             k \in { f \in KwdFiles : f.recordings = <<>> } }

\* -------------------------------------------------------------- helpers
Unset == <<>>

\* data[r, c] of the fixture array
Sample(r, c) == r * (MaxDim + 2) + c

\* shape[k], 0-based as in Python
Dim(shape, k) == shape[k + 1]

\* data[channel_index]: row channel_index of the array
Row(shape, channel_index) ==
    [c \in 1..Dim(shape, 1) |-> Sample(channel_index, c - 1)]

\* len(np.arange(start, stop, step)) for step > 0
ARangeLen(start, stop, step) ==
    IF stop <= start THEN 0 ELSE (stop - start + step - 1) \div step

\* The random generator: state k yields the float k / RngMod and moves on.
RngNext(k, draws) == (k + draws) % RngMod

\* np.random.rand(n) from state k, as numerators over RngMod
Rand(k, n) == [d \in 1..n |-> RngNext(k, d - 1)]

Returned(kind, value, rngAfter, draws) ==
    [raised |-> FALSE, error |-> "", what |-> "", kind |-> kind,
     value |-> value, rng |-> rngAfter, draws |-> draws]

Raised(error, what, rngAfter, draws) ==
    [raised |-> TRUE, error |-> error, what |-> what, kind |-> "",
     value |-> Unset, rng |-> rngAfter, draws |-> draws]

\* ---------------------------------------------------- read_analogsignal
\* Variant of Attr: attrs.get(name, 1), an absent attribute is defaulted.
AttrOrDefault(attrs, name) ==
    [found |-> TRUE,
     value |-> IF name \in DOMAIN attrs THEN attrs[name] ELSE 1]

\* attrs[name]: the value, or KeyError when the attribute is absent
Attr(attrs, name) ==
    [found |-> name \in DOMAIN attrs,
     value |-> IF name \in DOMAIN attrs THEN attrs[name] ELSE 0]

\* Variant of LazyShapeOf: lazy_shape is never assigned.
LazyShapeOfForgotten(shape) == Unset

\* anasig.lazy_shape = attrs['shape']
LazyShapeOf(shape) == <<shape>>

AnalogSignal(signal, sampling_rate, t_start, channel_index) ==
    [signal |-> signal, units |-> "V",
     sampling_rate |-> sampling_rate,
     t_start |-> t_start,
     channel_index |-> channel_index,
     lazy_shape |-> Unset,
     annotations |-> "info"]

read_analogsignal(lazy, kwd, channel_index, dataset, rng) ==
    IF dataset \notin DOMAIN kwd.recordings
    THEN Raised("KeyError", "recordings", rng, 0)
    ELSE
      LET rec         == kwd.recordings[dataset]
          sample_rate == Attr(rec.attrs, "sample_rate")
          start_time  == Attr(rec.attrs, "start_time")
          shape       == Attr(rec.attrs, "shape")
      IN
      IF lazy
      THEN
        IF ~sample_rate.found
        THEN Raised("KeyError", "sample_rate", rng, 0)
        ELSE IF ~start_time.found
        THEN Raised("KeyError", "start_time", rng, 0)
        ELSE IF ~shape.found
        THEN Raised("KeyError", "shape", rng, 0)
        ELSE Returned("AnalogSignal",
                      [AnalogSignal(<<>>, sample_rate.value,
                                    start_time.value, channel_index)
                         EXCEPT !.lazy_shape = LazyShapeOf(shape.value)],
                      rng, 0)
      ELSE
        IF channel_index >= Dim(rec.shape, 0)
        THEN Raised("IndexError", "data", rng, 0)
        ELSE IF ~sample_rate.found
        THEN Raised("KeyError", "sample_rate", rng, 0)
        ELSE IF ~start_time.found
        THEN Raised("KeyError", "start_time", rng, 0)
        ELSE Returned("AnalogSignal",
                      AnalogSignal(Row(rec.shape, channel_index),
                                   sample_rate.value, start_time.value,
                                   channel_index),
                      rng, 0)

\* ------------------------------------------------------ read_spiketrain
\* len(w): w = np.r_[w1, w2] over np.arange(11,60,4) and np.arange(11,60,2)
TemplateLength == ARangeLen(11, 60, 4) + ARangeLen(11, 60, 2)

\* Variant of DrawTimes: the uniform draw is over (0, 1] instead of [0, 1).
DrawTimesInclusive(rng, segment_duration, t_start) ==
    [d \in 1..num_spike_by_spiketrain |->
        (Rand(rng, num_spike_by_spiketrain)[d] + 1) * segment_duration
        + t_start * RngMod]

\* np.random.rand(num_spike_by_spiketrain) * segment_duration + t_start,
\* as numerators over RngMod
DrawTimes(rng, segment_duration, t_start) ==
    [d \in 1..num_spike_by_spiketrain |->
        Rand(rng, num_spike_by_spiketrain)[d] * segment_duration
        + t_start * RngMod]

\* Variant of ScipyMissing: the check sits after the timestamp draw.
ScipyMissingAfterDraw(rng) ==
    Raised("ImportError", "scipy", RngNext(rng, num_spike_by_spiketrain),
           num_spike_by_spiketrain)

\* if not HAVE_SCIPY: raise SCIPY_ERR
ScipyMissing(rng) == Raised("ImportError", "scipy", rng, 0)

read_spiketrain(lazy, segment_duration, t_start, channel_index, haveScipy, rng) ==
    IF ~haveScipy
    THEN ScipyMissing(rng)
    ELSE
      LET times == IF lazy THEN <<>>
                   ELSE DrawTimes(rng, segment_duration, t_start)
          nRand == IF lazy THEN 0 ELSE num_spike_by_spiketrain
          shape == <<num_spike_by_spiketrain, 1, TemplateLength>>
          nRandn == IF lazy THEN 0 ELSE shape[1] * shape[2] * shape[3]
      IN
      Returned("SpikeTrain",
               [times |-> times,
                t_start |-> t_start,
                t_stop |-> t_start + segment_duration,
                lazy_shape |-> IF lazy THEN <<num_spike_by_spiketrain>>
                               ELSE Unset,
                waveforms |-> IF lazy THEN Unset ELSE shape,
                sampling_rate |-> IF lazy THEN Unset ELSE <<sr>>,
                left_sweep |-> IF lazy THEN Unset
                               ELSE <<left_sweep_tenths>>,
                channel_index |-> channel_index],
               RngNext(rng, nRand + nRandn), nRand + nRandn)

\* -------------------------------------------------------- read_stimulus
\* np.random.rand() > .6 for the generator state k
IsTriggerA(k) == 10 * k > 6 * RngMod

read_stimulus(lazy, haveScipy, rng) ==
    IF lazy
    THEN Returned("EpochArray",
                  [times |-> <<>>, durations |-> <<>>, labels |-> <<>>],
                  rng, 0)
    ELSE IF "timevect" \notin ModuleGlobals(haveScipy)
    THEN Raised("NameError", "timevect", rng, 0)
    ELSE
      Returned("EpochArray",
               \* times: the drawn positions in timevect (numerators over
               \* RngMod of rand(n), before scaling by timevect.size)
               [times |-> Rand(rng, n_epochs),
                durations |-> [d \in 1..n_epochs |-> epoch_duration_ms],
                labels |-> [d \in 1..n_epochs |->
                              IF IsTriggerA(RngNext(rng, n_epochs + d - 1))
                              THEN "TriggerA" ELSE "TriggerB"]],
               RngNext(rng, 2 * n_epochs), 2 * n_epochs)

\* ------------------------------------------------------------------ state
VARIABLES
    HAVE_SCIPY,     \* whether `from scipy import stats` succeeded at import
    files,          \* the two containers on disk (read-only)
    rng,            \* state of np.random
    op,             \* the public method being (or last) called
    args,           \* its arguments
    pc,             \* position in the call
    num_channels,   \* local of read_segment
    i, j,           \* loop counters of read_segment
    seg,            \* the Segment under construction in read_segment
    result,         \* what the call returned or raised
    calls,          \* invocations of the three sub-readers in this call
    drawn           \* random numbers drawn in this call

vars == <<HAVE_SCIPY, files, rng, op, args, pc, num_channels, i, j, seg,
          result, calls, drawn>>

NoArgs ==
    [lazy |-> FALSE, cascade |-> FALSE, dataset |-> 0, channel_index |-> 0,
     segment_duration |-> default_segment_duration,
     t_start |-> default_t_start]

\* Segment(name='session something')
EmptySegment ==
    [analogsignals |-> <<>>, spiketrains |-> <<>>, epocharrays |-> <<>>,
     duration |-> Unset, linked |-> FALSE]

NoResult ==
    [raised |-> FALSE, error |-> "", what |-> "", kind |-> "",
     value |-> Unset]

NoCalls == [analogsignal |-> 0, spiketrain |-> 0, stimulus |-> 0]

\* What the caller sees of a sub-read or of read_segment
Outcome(r) ==
    [raised |-> r.raised, error |-> r.error, what |-> r.what,
     kind |-> r.kind, value |-> r.value]

Idle == pc \in {"idle", "done", "raised"}

Init ==
    /\ HAVE_SCIPY \in BOOLEAN
    /\ files \in FileSets
    /\ rng \in 0..(RngMod - 1)
    /\ op = "none"
    /\ args = NoArgs
    /\ pc = "idle"
    /\ num_channels = 0
    /\ i = 0
    /\ j = 0
    /\ seg = EmptySegment
    /\ result = NoResult
    /\ calls = NoCalls
    /\ drawn = 0

\* --------------------------------------------------------- read_segment
\* Variant of Propagate: the failure is caught and the segment built so
\* far is returned.
PropagateSwallowed(r) ==
    /\ pc' = "return"
    /\ result' = NoResult

\* An exception leaves read_segment: nothing catches it.
Propagate(r) ==
    /\ pc' = "raised"
    /\ result' = Outcome(r)

\* Lines 129-135: open both files, read num_channels and attrs, create seg.
OpenOutcome(dataset) ==
    IF ~files.kwik THEN Raised("IOError", "kwik", rng, 0)
    ELSE IF ~files.kwd.openable THEN Raised("IOError", "kwd", rng, 0)
    ELSE IF dataset \notin DOMAIN files.kwd.recordings
    THEN Raised("KeyError", "recordings", rng, 0)
    ELSE Returned("int", <<Dim(files.kwd.recordings[dataset].shape, 1)>>,
                  rng, 0)

\* Variant of AfterOpen: the cascade flag is ignored.
AfterOpenIgnoringCascade(cascade, n) ==
    IF n > 0 THEN "analogsignals" ELSE "stimulus"

\* Where read_segment goes once seg exists
AfterOpen(cascade, n) ==
    IF ~cascade THEN "return"
    ELSE IF n > 0 THEN "analogsignals" ELSE "stimulus"

ReadSegmentCall(lazy, cascade, dataset) ==
    /\ Idle
    /\ op' = "read_segment"
    /\ args' = [NoArgs EXCEPT !.lazy = lazy, !.cascade = cascade,
                              !.dataset = dataset]
    /\ seg' = EmptySegment
    /\ calls' = NoCalls
    /\ drawn' = 0
    /\ i' = 0
    /\ j' = 0
    /\ LET r == OpenOutcome(dataset) IN
       IF r.raised
       THEN /\ Propagate(r)
            /\ num_channels' = 0
       ELSE /\ num_channels' = r.value[1]
            /\ pc' = AfterOpen(cascade, r.value[1])
            /\ result' = NoResult
    /\ UNCHANGED <<HAVE_SCIPY, files, rng>>

\* Lines 139-145: one iteration of the analog-signal loop.
ReadSegmentAnalogsignal ==
    /\ pc = "analogsignals"
    /\ LET r == read_analogsignal(args.lazy, files.kwd, i, args.dataset, rng)
       IN
       /\ calls' = [calls EXCEPT !.analogsignal = @ + 1]
       /\ IF r.raised
          THEN /\ Propagate(r)
               /\ UNCHANGED <<seg, i>>
          ELSE /\ seg' = [seg EXCEPT
                            !.analogsignals = Append(@, r.value)]
               /\ i' = IF i + 1 < num_channels THEN i + 1 ELSE 0
               /\ pc' = IF i + 1 < num_channels THEN "analogsignals"
                        ELSE "spiketrains"
               /\ UNCHANGED result
    /\ UNCHANGED <<HAVE_SCIPY, files, rng, op, args, num_channels, j, drawn>>

\* Lines 149-154: one iteration of the inner spike-train loop.
ReadSegmentSpiketrain ==
    /\ pc = "spiketrains"
    /\ LET r == read_spiketrain(args.lazy, default_segment_duration,
                                default_t_start, i, HAVE_SCIPY, rng)
           lastOfChannel == j + 1 >= num_spiketrain_by_channel
           lastChannel == i + 1 >= num_channels
       IN
       /\ calls' = [calls EXCEPT !.spiketrain = @ + 1]
       /\ rng' = r.rng
       /\ drawn' = drawn + r.draws
       /\ IF r.raised
          THEN /\ Propagate(r)
               /\ UNCHANGED <<seg, i, j>>
          ELSE /\ seg' = [seg EXCEPT !.spiketrains = Append(@, r.value)]
               /\ j' = IF lastOfChannel THEN 0 ELSE j + 1
               /\ i' = IF lastOfChannel /\ ~lastChannel THEN i + 1
                       ELSE IF lastOfChannel THEN 0 ELSE i
               /\ pc' = IF lastOfChannel /\ lastChannel THEN "stimulus"
                        ELSE "spiketrains"
               /\ UNCHANGED result
    /\ UNCHANGED <<HAVE_SCIPY, files, op, args, num_channels>>

\* Lines 156-157.
ReadSegmentStimulus ==
    /\ pc = "stimulus"
    /\ LET r == read_stimulus(args.lazy, HAVE_SCIPY, rng) IN
       /\ calls' = [calls EXCEPT !.stimulus = @ + 1]
       /\ rng' = r.rng
       /\ drawn' = drawn + r.draws
       /\ IF r.raised
          THEN /\ Propagate(r)
               /\ UNCHANGED seg
          ELSE /\ seg' = [seg EXCEPT !.epocharrays = Append(@, r.value)]
               /\ pc' = "duration"
               /\ UNCHANGED result
    /\ UNCHANGED <<HAVE_SCIPY, files, op, args, num_channels, i, j>>

\* a / b <= c / d for nonzero b, d
RatLeq(x, y) == (x[1] * y[2] - y[1] * x[2]) * (x[2] * y[2]) <= 0

\* Variant of Timestamps: start_time is not added.
TimestampsWithoutStart(shape, start_time, sample_rate) ==
    [s \in 1..shape |-> <<s - 1, sample_rate>>]

\* (np.arange(0, shape) + start_time) / sample_rate
Timestamps(shape, start_time, sample_rate) ==
    [s \in 1..shape |-> <<(s - 1) + start_time, sample_rate>>]

\* timestamps.max()
MaxOf(ts) ==
    LET k == CHOOSE k \in DOMAIN ts : \A m \in DOMAIN ts : RatLeq(ts[m], ts[k])
    IN ts[k]

\* Lines 159-162.
DurationOutcome(attrs) ==
    LET shape       == Attr(attrs, "shape")
        start_time  == Attr(attrs, "start_time")
        sample_rate == Attr(attrs, "sample_rate")
        timestamps  == Timestamps(shape.value, start_time.value,
                                  sample_rate.value)
    IN
    IF ~shape.found
    THEN Raised("KeyError", "shape", rng, 0)
    ELSE IF ~start_time.found
    THEN Raised("KeyError", "start_time", rng, 0)
    ELSE IF ~sample_rate.found
    THEN Raised("KeyError", "sample_rate", rng, 0)
    ELSE IF Len(timestamps) = 0
    THEN Raised("ValueError", "max", rng, 0)
    ELSE Returned("float", MaxOf(timestamps), rng, 0)

ReadSegmentDuration ==
    /\ pc = "duration"
    /\ LET r == DurationOutcome(files.kwd.recordings[args.dataset].attrs) IN
       IF r.raised
       THEN /\ Propagate(r)
            /\ UNCHANGED seg
       ELSE /\ seg' = [seg EXCEPT !.duration = r.value]
            /\ pc' = "return"
            /\ UNCHANGED result
    /\ UNCHANGED <<HAVE_SCIPY, files, rng, op, args, num_channels, i, j,
                   calls, drawn>>

\* Lines 163-164: seg.create_many_to_one_relationship(); return seg.
ReadSegmentReturn ==
    /\ pc = "return"
    /\ seg' = [seg EXCEPT !.linked = TRUE]
    /\ result' = Outcome(Returned("Segment", seg', rng, 0))
    /\ pc' = "done"
    /\ UNCHANGED <<HAVE_SCIPY, files, rng, op, args, num_channels, i, j,
                   calls, drawn>>

\* --------------------------------------------- direct calls of sub-reads
Finish(r) ==
    /\ result' = Outcome(r)
    /\ pc' = IF r.raised THEN "raised" ELSE "done"
    /\ rng' = r.rng
    /\ drawn' = r.draws
    /\ seg' = EmptySegment
    /\ num_channels' = 0
    /\ i' = 0
    /\ j' = 0
    /\ UNCHANGED <<HAVE_SCIPY, files>>

\* read_analogsignal(lazy, kwd, channel_index, dataset) on an open handle
ReadAnalogsignalCall(lazy, channel_index, dataset) ==
    /\ Idle
    /\ files.kwd.openable
    /\ op' = "read_analogsignal"
    /\ args' = [NoArgs EXCEPT !.lazy = lazy, !.channel_index = channel_index,
                              !.dataset = dataset]
    /\ calls' = [NoCalls EXCEPT !.analogsignal = 1]
    /\ Finish(read_analogsignal(lazy, files.kwd, channel_index, dataset, rng))

ReadSpiketrainCall(lazy, segment_duration, t_start, channel_index) ==
    /\ Idle
    /\ op' = "read_spiketrain"
    /\ args' = [NoArgs EXCEPT !.lazy = lazy,
                              !.segment_duration = segment_duration,
                              !.t_start = t_start,
                              !.channel_index = channel_index]
    /\ calls' = [NoCalls EXCEPT !.spiketrain = 1]
    /\ Finish(read_spiketrain(lazy, segment_duration, t_start,
                              channel_index, HAVE_SCIPY, rng))

ReadStimulusCall(lazy) ==
    /\ Idle
    /\ op' = "read_stimulus"
    /\ args' = [NoArgs EXCEPT !.lazy = lazy]
    /\ calls' = [NoCalls EXCEPT !.stimulus = 1]
    /\ Finish(read_stimulus(lazy, HAVE_SCIPY, rng))

Next ==
    \/ \E lazy \in BOOLEAN, cascade \in BOOLEAN, dataset \in Datasets :
          ReadSegmentCall(lazy, cascade, dataset)
    \/ ReadSegmentAnalogsignal
    \/ ReadSegmentSpiketrain
    \/ ReadSegmentStimulus
    \/ ReadSegmentDuration
    \/ ReadSegmentReturn
    \/ \E lazy \in BOOLEAN, channel_index \in ChannelIndexes,
          dataset \in Datasets :
          ReadAnalogsignalCall(lazy, channel_index, dataset)
    \/ \E lazy \in BOOLEAN, a \in SpikeArgs, channel_index \in 0..1 :
          ReadSpiketrainCall(lazy, a[1], a[2], channel_index)
    \/ \E lazy \in BOOLEAN : ReadStimulusCall(lazy)

Spec == Init /\ [][Next]_vars

\* ============================================================ properties
Finished == pc \in {"done", "raised"}

\* The recording group the current call addresses exists
HasDataset == args.dataset \in DOMAIN files.kwd.recordings

TheRecording == files.kwd.recordings[args.dataset]

BothOpenable == files.kwik /\ files.kwd.openable

\* C1: a cascading readSession on a raw container with channelCount = C
\* (the size of dimension 1 of the sample array, as read_segment reads it)
\* returns, lazy or eager, a Session with exactly C channel signals and 3*C
\* spike trains in channel-index order: signal k has channelIndex k and
\* spike train k has channelIndex floor(k / 3).  Stated for containers that
\* are well formed and with scipy present.
C1_SessionCounts ==
    ( /\ op = "read_segment"
      /\ args.cascade
      /\ Finished
      /\ BothOpenable
      /\ HasDataset
      /\ HAVE_SCIPY
      /\ DOMAIN TheRecording.attrs = AttrNames
      /\ TheRecording.attrs["shape"] >= 1 )
    => /\ pc = "done"
       /\ result.kind = "Segment"
       /\ LET C == Dim(TheRecording.shape, 1)
              signals == result.value.analogsignals
              trains == result.value.spiketrains
          IN
          /\ Len(signals) = C
          /\ Len(trains) = num_spiketrain_by_channel * C
          /\ \A k \in 1..Len(signals) : signals[k].channel_index = k - 1
          /\ \A k \in 1..Len(trains) :
                trains[k].channel_index
                  = (k - 1) \div num_spiketrain_by_channel

\* C2 (as stated): for every lazy and every pair of openable containers,
\* readSession with cascade=false returns a Session with no channel
\* signals, no spike trains, no stimulus epochs and duration unset, and
\* invokes none of the three sub-readers.
C2_ShallowReadOfOpenable ==
    (op = "read_segment" /\ ~args.cascade /\ BothOpenable /\ Finished)
    => /\ pc = "done"
       /\ result.kind = "Segment"
       /\ result.value.analogsignals = <<>>
       /\ result.value.spiketrains = <<>>
       /\ result.value.epocharrays = <<>>
       /\ result.value.duration = Unset
       /\ calls = NoCalls

\* C2 (amended): the same, for openable containers whose raw container
\* holds the recording group of the requested dataset; at no point of such
\* a call is a sub-reader invoked or a child attached.
C2_ShallowRead ==
    (op = "read_segment" /\ ~args.cascade /\ BothOpenable /\ HasDataset)
    => /\ pc \in {"return", "done"}
       /\ calls = NoCalls
       /\ seg.analogsignals = <<>>
       /\ seg.spiketrains = <<>>
       /\ seg.epocharrays = <<>>
       /\ seg.duration = Unset
       /\ pc = "done" =>
            /\ result.kind = "Segment"
            /\ result.value = seg

C2_Witness ==
    /\ op = "read_segment"
    /\ ~args.cascade
    /\ args.lazy
    /\ pc = "done"
    /\ result.kind = "Segment"
    /\ Dim(TheRecording.shape, 1) > 0

\* What the eager call with the same parameters returns
EagerAnalogsignal ==
    read_analogsignal(FALSE, files.kwd, args.channel_index, args.dataset,
                      rng)

EagerSpiketrain ==
    read_spiketrain(FALSE, args.segment_duration, args.t_start,
                    args.channel_index, HAVE_SCIPY, rng)

LazySpiketrainOk ==
    (op = "read_spiketrain" /\ args.lazy /\ pc = "done")
    => /\ result.value.times = <<>>
       /\ result.value.waveforms = Unset
       /\ ~EagerSpiketrain.raised
       /\ result.value.lazy_shape = <<Len(EagerSpiketrain.value.times)>>

C4_EagerEpochs ==
    (op = "read_stimulus" /\ ~args.lazy /\ Finished)
    => /\ pc = "done"
       /\ result.kind = "EpochArray"
       /\ Len(result.value.times) = n_epochs
       /\ Len(result.value.durations) = n_epochs
       /\ Len(result.value.labels) = n_epochs
       /\ \A k \in 1..n_epochs :
            /\ result.value.durations[k] = epoch_duration_ms
            /\ result.value.labels[k] \in {"TriggerA", "TriggerB"}

\* C5: whenever a step of readSession fails (opening a container, reading
\* the channel count or the attributes, or a sub-reader invocation) the
\* failure reaches the caller at that step: the failing sub-reader is not
\* invoked again, no later step runs, and no Session, complete or partial,
\* is returned; a Session is returned only when every step succeeded.
C5_FailurePropagates ==
    op = "read_segment" =>
      LET na == Len(seg.analogsignals)
          ns == Len(seg.spiketrains)
          ne == Len(seg.epocharrays)
          failedA == calls.analogsignal - na
          failedS == calls.spiketrain - ns
          failedE == calls.stimulus - ne
      IN
      /\ OpenOutcome(args.dataset).raised =>
           /\ pc = "raised"
           /\ result.error = OpenOutcome(args.dataset).error
           /\ calls = NoCalls
      /\ failedA + failedS + failedE > 0 => pc = "raised"
      /\ pc = "raised" =>
           /\ result.raised
           /\ result.kind = ""
           /\ result.value = Unset
           /\ seg.duration = Unset
           /\ ~seg.linked
           /\ failedA + failedS + failedE <= 1
           /\ failedA > 0 => (calls.spiketrain = 0 /\ calls.stimulus = 0)
           /\ failedS > 0 => calls.stimulus = 0
           /\ ~ENABLED ( \/ ReadSegmentAnalogsignal
                         \/ ReadSegmentSpiketrain
                         \/ ReadSegmentStimulus
                         \/ ReadSegmentDuration
                         \/ ReadSegmentReturn )
      /\ result.kind = "Segment" =>
           /\ pc = "done"
           /\ failedA + failedS + failedE = 0
           /\ args.cascade =>
                /\ na = num_channels
                /\ ns = num_spiketrain_by_channel * num_channels
                /\ ne = 1
                /\ result.value.duration # Unset

C5_Witness ==
    /\ op = "read_segment"
    /\ pc = "raised"
    /\ result.error = "NameError"
    /\ Len(seg.analogsignals) = 2
    /\ Len(seg.spiketrains) = 6
    /\ calls.stimulus = 1

\* C6: without scipy every readSpikeTrain call, lazy or eager, fails with
\* the import error before any random number is drawn or any SpikeTrain is
\* built, while readChannelSignal and readSession with cascade=false are
\* unaffected: they succeed on every container on which they succeed with
\* scipy.
C6_MissingScipy ==
    ~HAVE_SCIPY =>
      /\ (op = "read_spiketrain" /\ Finished) =>
           /\ pc = "raised"
           /\ result.error = "ImportError"
           /\ result.value = Unset
           /\ drawn = 0
      /\ (op = "read_segment" /\ calls.spiketrain > 0) =>
           /\ pc = "raised"
           /\ result.error = "ImportError"
           /\ calls.spiketrain = 1
           /\ seg.spiketrains = <<>>
           /\ drawn = 0
      /\ (op = "read_analogsignal" /\ Finished) =>
           /\ result.error # "ImportError"
           /\ ( /\ HasDataset
                /\ DOMAIN TheRecording.attrs = AttrNames
                /\ args.channel_index < Dim(TheRecording.shape, 0) )
              => pc = "done"
      /\ ( /\ op = "read_segment"
           /\ ~args.cascade
           /\ Finished
           /\ BothOpenable
           /\ HasDataset )
         => (pc = "done" /\ result.kind = "Segment")

C6_Witness ==
    /\ ~HAVE_SCIPY
    /\ op = "read_spiketrain"
    /\ ~args.lazy
    /\ pc = "raised"
    /\ result.error = "ImportError"

\* The attributes among sample_rate and start_time that the dataset lacks
MissingRateOrStart == {"sample_rate", "start_time"} \ DOMAIN TheRecording.attrs

\* C7 (as stated): lazy or eager, readChannelSignal fails with a
\* missing-attribute error whenever sample_rate or start_time is absent.
C7_MissingAttributeError ==
    ( /\ op = "read_analogsignal"
      /\ Finished
      /\ HasDataset
      /\ MissingRateOrStart # {} )
    => /\ pc = "raised"
       /\ result.error = "KeyError"
       /\ result.what \in MissingRateOrStart

\* C7 (amended): lazy or eager, readChannelSignal fails whenever
\* sample_rate or start_time is absent, with the missing-attribute error in
\* lazy mode and in eager mode when channelIndex addresses an existing row
\* of the array (otherwise the row read fails first, with an index error);
\* a ChannelSignal it returns carries the samplingRate and startTime read
\* from the attribute set, never a default.
C7_NeverDefaulted ==
    (op = "read_analogsignal" /\ Finished /\ HasDataset)
    => /\ MissingRateOrStart # {} =>
            /\ pc = "raised"
            /\ (args.lazy \/ args.channel_index < Dim(TheRecording.shape, 0))
               => /\ result.error = "KeyError"
                  /\ result.what \in MissingRateOrStart
       /\ pc = "done" =>
            /\ MissingRateOrStart = {}
            /\ result.value.sampling_rate
                 = TheRecording.attrs["sample_rate"]
            /\ result.value.t_start = TheRecording.attrs["start_time"]

C7_Witness ==
    /\ op = "read_analogsignal"
    /\ ~args.lazy
    /\ HasDataset
    /\ args.channel_index < Dim(TheRecording.shape, 0)
    /\ "sample_rate" \notin DOMAIN TheRecording.attrs
    /\ pc = "raised"
    /\ result.error = "KeyError"
    /\ result.what = "sample_rate"

\* An eagerly read spike train: 40 timestamps, waveforms of shape
\* (40, 1, templateLength), and for a positive duration every timestamp in
\* [t_start, t_start + segment_duration)  (timestamps are numerators over
\* RngMod).
EagerTrainOk(train, segment_duration, t_start) ==
    /\ Len(train.times) = 40
    /\ train.waveforms = <<40, 1, TemplateLength>>
    /\ train.waveforms[1] = Len(train.times)
    /\ segment_duration > 0 =>
         \A k \in 1..Len(train.times) :
            /\ t_start * RngMod <= train.times[k]
            /\ train.times[k] < (t_start + segment_duration) * RngMod

\* C8: every eager readSpikeTrain result has exactly 40 timestamps, a
\* waveform array of shape (40, 1, templateLength), as many waveforms as
\* timestamps, and, for a positive segmentDuration, every timestamp t with
\* tStart <= t < tStart + segmentDuration; so has every spike train an
\* eager readSession attaches.
C8_EagerSpikeTrain ==
    /\ (op = "read_spiketrain" /\ ~args.lazy /\ pc = "done")
       => EagerTrainOk(result.value, args.segment_duration, args.t_start)
    /\ (op = "read_segment" /\ ~args.lazy)
       => \A k \in 1..Len(seg.spiketrains) :
             EagerTrainOk(seg.spiketrains[k], default_segment_duration,
                          default_t_start)

C8_Witness ==
    /\ op = "read_spiketrain"
    /\ ~args.lazy
    /\ pc = "done"
    /\ args.segment_duration = 1
    /\ args.t_start = 0
    /\ \E k \in 1..Len(result.value.times) : result.value.times[k] > 0

\* C9: for a raw sample array indexed [channel, sample], a cascading eager
\* readSession iterates over as many channels as the array has rows
\* (dimension 0, the one readChannelSignal indexes): every channelIndex it
\* passes addresses an existing row, no row read fails out of range, and
\* once the loop is over every row has been read exactly once.
C9_ChannelRows ==
    ( /\ op = "read_segment"
      /\ args.cascade
      /\ ~args.lazy
      /\ BothOpenable
      /\ HasDataset )
    => /\ num_channels = Dim(TheRecording.shape, 0)
       /\ pc = "analogsignals" => i < Dim(TheRecording.shape, 0)
       /\ pc = "raised" => result.error # "IndexError"
       /\ pc \in {"spiketrains", "stimulus", "duration", "return", "done"}
          => calls.analogsignal = Dim(TheRecording.shape, 0)

\* d = (sampleIndex + start_time) / sample_rate for some sampleIndex in
\* [0, total), and no sampleIndex gives more
IsMaxTimestamp(d, total, start_time, sample_rate) ==
    /\ \E s \in 0..(total - 1) :
          d[1] * sample_rate = (s + start_time) * d[2]
    /\ \A s \in 0..(total - 1) :
          ((s + start_time) * d[2] - d[1] * sample_rate)
            * (sample_rate * d[2]) <= 0

\* C10: after a successful cascading readSession the duration is the
\* maximum of (sampleIndex + start_time) / sample_rate over sampleIndex in
\* [0, total), total the 'shape' attribute: (total - 1 + start_time) /
\* sample_rate when sample_rate is positive; and the duration is assigned
\* only once all channel signals, spike trains and the stimulus epochs are
\* attached.
C10_Duration ==
    op = "read_segment" =>
      /\ (args.cascade /\ pc = "done") =>
           LET attrs == TheRecording.attrs
               d == result.value.duration
           IN
           /\ d # Unset
           /\ attrs["shape"] >= 1
           /\ IsMaxTimestamp(d, attrs["shape"], attrs["start_time"],
                             attrs["sample_rate"])
           /\ attrs["sample_rate"] > 0 =>
                d[1] * attrs["sample_rate"]
                  = (attrs["shape"] - 1 + attrs["start_time"]) * d[2]
      /\ seg.duration # Unset =>
           /\ Len(seg.analogsignals) = num_channels
           /\ Len(seg.spiketrains) = num_spiketrain_by_channel * num_channels
           /\ Len(seg.epocharrays) = 1

C10_Witness ==
    /\ op = "read_segment"
    /\ args.cascade
    /\ pc = "done"
    /\ TheRecording.attrs["shape"] = 2
    /\ TheRecording.attrs["start_time"] = 1
    /\ TheRecording.attrs["sample_rate"] = 2
    /\ result.value.duration = <<2, 2>>
    /\ Len(result.value.spiketrains) = 6

====
